---- MODULE Spec2Model ----
(***************************************************************************)
(* Model of package zesty (src/zesty/zesty.go): the zestyprovider          *)
(* transaction-nesting state machine on top of a DB / Tx pair.             *)
(*                                                                         *)
(* The provider fields current, tx and nested are the variables of the    *)
(* same name.  The DB and Tx interfaces (zesty.go:34-48) are implemented  *)
(* by gorp; they are modelled as an SQL engine with one table, one live    *)
(* transaction and a stack of named savepoints, every call of which may   *)
(* either succeed or fail with an error.                                   *)
(*                                                                         *)
(* The registry of zesty (dbs, dblock) is modelled twice: call by call,    *)
(* and goroutine by goroutine with the steps of the RWMutex.  Package      *)
(* amock (src/amock/amock.go) is modelled as the list of expected          *)
(* responses of one MockRoundTripper, and goroutine by goroutine with the  *)
(* steps of its mutex.                                                     *)
(***************************************************************************)
EXTENDS Integers, Sequences, FiniteSets, TLC

(* ------------------------------ bounds -------------------------------- *)
MaxDepth == 2        \* cap on nested
MaxSavepoints == 2   \* cap on the savepoint stack of the live transaction
MaxWrites == 2       \* cap on the number of rows in a table view
MaxTx == 2           \* cap on the number of successful Begin calls
NumProviders == 2    \* providers built from the same DB
MaxTxSavepoint == 1  \* cap on successful Begin calls where RollbackTo is used
NumThreads == 2      \* goroutines calling the registry
MaxExpect == 3       \* cap on the number of Expect calls on a mock
MaxSettings == 2     \* cap on the settings the listed responses carry in all

(* ----------------------------- constants ------------------------------ *)
value1 == 1
value2 == 2
Values == {value1, value2}

DBHandle == 0        \* the registered DB (zp.db), constant for the provider
NilTx == -1          \* zp.tx == nil
NoVal == -1          \* the method called last returns nothing but an error

Nil == "nil"                         \* a nil error
ErrNoActiveTx == "No active Tx"      \* errors.New("No active Tx")
UnderlyingErrs == {"driver: bad connection", "sql: database is closed"}
Results == {Nil} \cup UnderlyingErrs \* what a DB / Tx call may return

Providers == 1..NumProviders
Names == {"test", "db", "missing"}   \* names given to the registry
DBs == {"dbA", "dbB"}                \* DB values given to RegisterDB
NoDB == "nil"                        \* dbs[name] with ok == false
NoProvider == [current |-> NoDB, db |-> NoDB, tx |-> NilTx, nested |-> 0]
Threads == 1..NumThreads
LockNames == {"test", "db"}          \* names the goroutines contend for
NoCall == [op |-> "none", name |-> "", db |-> NoDB]

VARIABLES
    current,     \* zestyprovider.current: DBHandle or a transaction handle
    tx,          \* zestyprovider.tx: NilTx or a transaction handle
    nested,      \* zestyprovider.nested
    table,       \* rows committed to the database
    txData,      \* rows as seen inside the live transaction
    savepoints,  \* savepoint stack of the live transaction: [name, mark]
    nextTx,      \* number of transactions Begin has handed out
    lastOp,      \* the provider method called last
    lastRet,     \* the error it returned
    lastCalls,   \* the DB / Tx calls it issued
    entered,     \* history: per open nesting level, what its Tx() call saw
    run,         \* history: successful Tx() calls since Idle, -1 once broken
    outerClosed, \* history: outermost Commit/Rollback succeeded, no Tx() since
    peak,        \* history: highest nested reached in the latest transaction
    lastVal,     \* the value the method called last returned besides its error
    lastArg,     \* the argument the method called last was given
    closedTxs,   \* history: transactions successfully committed or rolled back
    rolledTo     \* history: per savepoint of the stack, was it rolled back to

vars == <<current, tx, nested, table, txData, savepoints, nextTx,
          lastOp, lastRet, lastCalls, entered, run, outerClosed, peak,
          lastVal, lastArg, closedTxs, rolledTo>>

hist == <<entered, run, outerClosed, peak, closedTxs, rolledTo>>

\* several providers built from one registered DB
VARIABLES
    provs,       \* provider -> [current, tx, nested], one zestyprovider each
    mNextTx,     \* number of transactions the shared DB has handed out
    mLast        \* the call made last: [p, op, ret, calls]

multiVars == <<provs, mNextTx, mLast>>

\* the registry of zesty.go:24-28
VARIABLES
    dbs,         \* the map dbs: name -> DB, NoDB for a name not in the map
    regLast,     \* the call made last: [op, name, db, ret, provider]
    lastReg      \* history: name -> DB of the last successful call on the
                 \* name if that was a RegisterDB, NoDB otherwise

regVars == <<dbs, regLast, lastReg>>

\* goroutines inside RegisterDB, UnregisterDB and NewDBProvider
VARIABLES
    writer,      \* dblock: the goroutine holding Lock(), 0 if none
    readers,     \* dblock: the goroutines holding RLock()
    pc,          \* goroutine -> where it is in its call
    call,        \* goroutine -> [op, name, db] of its call
    found,       \* goroutine -> its local db, ok of dbs[name] (NoDB: !ok)
    err,         \* goroutine -> the error its call is about to return
    overlap      \* history: goroutine -> what happened to the name of its
                 \* RegisterDB in other goroutines since it was called

lockOnly == <<writer, readers, pc, call, found, err, overlap>>
lockVars == <<dbs, lockOnly>>

\* package amock: one MockRoundTripper used from one goroutine
VARIABLES
    Responses,        \* mc.Responses: the expected responses, in order
    potentialCallers, \* mc.potentialCallers
    created,          \* number of responses Expect has created
    mOp,              \* the method called last
    mReq,             \* the request given to it, NoReq if it takes none
    mResp,            \* the response RoundTrip returned, NoResp for nil
    mErr,             \* the error returned (the message of t.Error)
    given             \* history: the responses RoundTrip has returned

mockVars == <<Responses, potentialCallers, created, mOp, mReq, mResp, mErr,
              given>>

\* package amock: one MockRoundTripper used from several goroutines
VARIABLES
    Mutex,       \* the sync.Mutex of the mock: the goroutine holding it, 0
    at,          \* goroutine -> where it is in its method
    doing,       \* goroutine -> [op, r]: its method and the Response
    funcCond     \* the responses whose Cond holds an OnFunc filter

raceVars == <<Mutex, at, doing, funcCond>>

\* what the actions on one provider leave alone
aside == <<multiVars, regVars, lockOnly, mockVars, raceVars>>

zp == <<current, tx, nested>>
engine == <<table, txData, savepoints, nextTx>>

(* ------------------------- savepoint names ---------------------------- *)
Digit(d) ==
    CASE d = 0 -> "0" [] d = 1 -> "1" [] d = 2 -> "2" [] d = 3 -> "3"
      [] d = 4 -> "4" [] d = 5 -> "5" [] d = 6 -> "6" [] d = 7 -> "7"
      [] d = 8 -> "8" [] d = 9 -> "9"

RECURSIVE Itoa(_)
Itoa(n) == IF n < 10 THEN Digit(n) ELSE Itoa(n \div 10) \o Digit(n % 10)

\* fmt.Sprintf("tx-nested-%d", n)
SavepointName(n) == "tx-nested-" \o Itoa(n)

\* the name Tx() creates, the name Rollback() rolls back to
TxSavepoint_first == SavepointName(1)
TxSavepoint_cur == SavepointName(nested)
TxSavepoint == SavepointName(nested + 1)
RollbackSavepoint_next == SavepointName(nested + 1)
RollbackSavepoint == SavepointName(nested)

(* ----------------------------- SQL engine ----------------------------- *)
Call(recv, op, arg, ret) == [recv |-> recv, op |-> op, arg |-> arg, ret |-> ret]

\* index of the most recent savepoint called name, 0 if there is none
LastSavepoint_oldest(name) ==
    LET idx == {i \in 1..Len(savepoints) : savepoints[i].name = name}
    IN  IF idx = {} THEN 0 ELSE CHOOSE i \in idx : \A j \in idx : i <= j
LastSavepoint(name) ==
    LET idx == {i \in 1..Len(savepoints) : savepoints[i].name = name}
    IN  IF idx = {} THEN 0 ELSE CHOOSE i \in idx : \A j \in idx : j <= i

\* DB.Begin succeeding: a new transaction that sees the committed rows
EngineBegin ==
    /\ nextTx' = nextTx + 1
    /\ txData' = table
    /\ savepoints' = <<>>
    /\ UNCHANGED table

\* Tx.Savepoint(name) succeeding
EngineSavepoint(name) ==
    /\ savepoints' = Append(savepoints, [name |-> name, mark |-> Len(txData)])
    /\ UNCHANGED <<table, txData, nextTx>>

\* Tx.RollbackToSavepoint(name) succeeding: undo back to the most recent
\* savepoint of that name, which stays; the later ones are gone
EngineRollbackTo(name) ==
    LET i == LastSavepoint(name) IN
    /\ i > 0
    /\ txData' = SubSeq(txData, 1, savepoints[i].mark)
    /\ savepoints' = SubSeq(savepoints, 1, i)
    /\ UNCHANGED <<table, nextTx>>

\* Tx.Commit succeeding
EngineCommit ==
    /\ table' = txData
    /\ txData' = <<>>
    /\ savepoints' = <<>>
    /\ UNCHANGED nextTx

\* Tx.Rollback succeeding
EngineRollback ==
    /\ txData' = <<>>
    /\ savepoints' = <<>>
    /\ UNCHANGED <<table, nextTx>>

(* ------------------------------ provider ------------------------------ *)
\* NewDBProvider / NewTempDBProvider: current = db, tx = nil, nested = 0
Init ==
    /\ current = DBHandle
    /\ tx = NilTx
    /\ nested = 0
    /\ table = <<>>
    /\ txData = <<>>
    /\ savepoints = <<>>
    /\ nextTx = 0
    /\ lastOp = "NewDBProvider"
    /\ lastRet = Nil
    /\ lastCalls = <<>>
    /\ entered = <<>>
    /\ run = 0
    /\ outerClosed = FALSE
    /\ peak = 0
    /\ lastVal = NoVal
    /\ lastArg = NoVal
    /\ closedTxs = {}
    /\ rolledTo = <<>>
    /\ provs = [p \in Providers |->
                   [current |-> DBHandle, tx |-> NilTx, nested |-> 0]]
    /\ mNextTx = 0
    /\ mLast = [p |-> 0, op |-> "NewTempDBProvider", ret |-> Nil, calls |-> <<>>]
    /\ dbs = [n \in Names |-> NoDB]
    /\ lastReg = [n \in Names |-> NoDB]
    /\ writer = 0
    /\ readers = {}
    /\ pc = [t \in Threads |-> "idle"]
    /\ call = [t \in Threads |-> NoCall]
    /\ found = [t \in Threads |-> NoDB]
    /\ err = [t \in Threads |-> Nil]
    /\ overlap = [t \in Threads |-> "none"]
    /\ Responses = <<>>
    /\ potentialCallers = {}
    /\ created = 0
    /\ mOp = "NewMock"
    /\ mReq = [path |-> <<>>, stack |-> {}, method |-> ""]
    /\ mResp = [id |-> 0, StatusCode |-> 0, Header |-> "nil"]
    /\ mErr = Nil
    /\ given = {}
    /\ Mutex = 0
    /\ at = [t \in Threads |-> "idle"]
    /\ doing = [t \in Threads |-> [op |-> "none", r |-> 0]]
    /\ funcCond = {}
    /\ regLast = [op |-> "init", name |-> "", db |-> NoDB, ret |-> Nil,
                  provider |-> NoProvider]

\* zp.DB()
DB_base == DBHandle
DB == current

\* zp.tx == nil, the guard of Commit() and Rollback()
NoActiveTx_never == FALSE
NoActiveTx == tx = NilTx

\* zp.nested > 0 in Commit(), in Rollback()
CommitIsNested_never == FALSE
CommitIsNested == nested > 0
RollbackIsNested_never == FALSE
RollbackIsNested == nested > 0

\* zp.resetTx()
resetTx_skipped == UNCHANGED <<current, tx>>
resetTx_keepCurrent ==
    /\ current' = current
    /\ tx' = NilTx
resetTx_keepTx ==
    /\ current' = DBHandle
    /\ tx' = tx
resetTx ==
    /\ current' = DBHandle
    /\ tx' = NilTx

\* Tx(): zp.tx = tx; zp.current = tx
TxOpen_noCurrent(h) ==
    /\ tx' = h
    /\ current' = current
    /\ UNCHANGED nested
TxOpen_counted(h) ==
    /\ tx' = h
    /\ current' = h
    /\ nested' = nested + 1
TxOpen(h) ==
    /\ tx' = h
    /\ current' = h
    /\ UNCHANGED nested

\* Commit() at nested == 0, zp.tx.Commit() having returned r
CommitOuter_resetAlways(r) ==
    /\ IF r # Nil THEN UNCHANGED engine ELSE EngineCommit
    /\ resetTx
    /\ UNCHANGED nested
CommitOuter(r) ==
    IF r # Nil
    THEN UNCHANGED <<zp, engine>>
    ELSE EngineCommit /\ resetTx /\ UNCHANGED nested

\* history kept by a Commit()/Rollback() call that returned ret
Leave(ret, wasNested) ==
    /\ entered' = IF ret = Nil /\ wasNested
                  THEN SubSeq(entered, 1, Len(entered) - 1) ELSE entered
    /\ run' = IF tx' = NilTx THEN 0 ELSE -1
    /\ outerClosed' = IF ret = Nil /\ ~wasNested THEN TRUE ELSE outerClosed
    /\ peak' = peak
    /\ closedTxs' = IF ret = Nil /\ ~wasNested
                    THEN closedTxs \cup {tx} ELSE closedTxs
    /\ rolledTo' = IF ret # Nil \/ (wasNested /\ lastOp' = "Commit")
                   THEN rolledTo
                   ELSE [k \in 1..Len(savepoints') |->
                            IF k = Len(savepoints') THEN TRUE ELSE rolledTo[k]]

\* history kept by a Tx() call that succeeded
Enter(wasOpen) ==
    /\ entered' = IF wasOpen
                  THEN Append(entered, [name |-> TxSavepoint, mark |-> Len(txData)])
                  ELSE <<>>
    /\ run' = IF run >= 0 THEN run + 1 ELSE run
    /\ outerClosed' = FALSE
    /\ peak' = IF ~wasOpen THEN 0
               ELSE IF nested' > peak THEN nested' ELSE peak
    /\ closedTxs' = closedTxs
    /\ rolledTo' = IF wasOpen THEN Append(rolledTo, FALSE) ELSE <<>>

\* zp.Tx()
Tx ==
    /\ UNCHANGED aside
    /\ lastOp' = "Tx"
    /\ lastVal' = NoVal
    /\ lastArg' = NoVal
    /\ \E r \in Results :
        /\ lastRet' = r
        /\ IF tx # NilTx
           THEN /\ nested < MaxDepth
                /\ Len(savepoints) < MaxSavepoints
                /\ lastCalls' = <<Call(tx, "Savepoint", TxSavepoint, r)>>
                /\ IF r # Nil
                   THEN UNCHANGED <<zp, engine, hist>>
                   ELSE /\ EngineSavepoint(TxSavepoint)
                        /\ nested' = nested + 1
                        /\ UNCHANGED <<current, tx>>
                        /\ Enter(TRUE)
           ELSE /\ nextTx < MaxTx
                /\ nested < MaxDepth
                /\ lastCalls' = <<Call(DBHandle, "Begin", "", r)>>
                /\ IF r # Nil
                   THEN UNCHANGED <<zp, engine, hist>>
                   ELSE /\ EngineBegin
                        /\ TxOpen(nextTx + 1)
                        /\ Enter(FALSE)

\* zp.Commit()
Commit ==
    /\ UNCHANGED aside
    /\ lastOp' = "Commit"
    /\ lastVal' = NoVal
    /\ lastArg' = NoVal
    /\ IF NoActiveTx
       THEN /\ lastRet' = ErrNoActiveTx
            /\ lastCalls' = <<>>
            /\ UNCHANGED <<zp, engine>>
            /\ Leave(ErrNoActiveTx, FALSE)
       ELSE IF CommitIsNested
       THEN /\ nested' = nested - 1
            /\ lastRet' = Nil
            /\ lastCalls' = <<>>
            /\ UNCHANGED <<current, tx, engine>>
            /\ Leave(Nil, TRUE)
       ELSE \E r \in Results :
            /\ lastRet' = r
            /\ lastCalls' = <<Call(tx, "Commit", "", r)>>
            /\ CommitOuter(r)
            /\ Leave(r, FALSE)

\* zp.Rollback()
Rollback ==
    /\ UNCHANGED aside
    /\ lastOp' = "Rollback"
    /\ lastVal' = NoVal
    /\ lastArg' = NoVal
    /\ IF NoActiveTx
       THEN /\ lastRet' = ErrNoActiveTx
            /\ lastCalls' = <<>>
            /\ UNCHANGED <<zp, engine>>
            /\ Leave(ErrNoActiveTx, FALSE)
       ELSE IF RollbackIsNested
       THEN \E r \in Results :
            /\ lastRet' = r
            /\ lastCalls' = <<Call(tx, "RollbackToSavepoint", RollbackSavepoint, r)>>
            /\ IF r # Nil
               THEN UNCHANGED <<zp, engine>>
               ELSE /\ EngineRollbackTo(RollbackSavepoint)
                    /\ nested' = nested - 1
                    /\ UNCHANGED <<current, tx>>
            /\ Leave(r, TRUE)
       ELSE \E r \in Results :
            /\ lastRet' = r
            /\ lastCalls' = <<Call(tx, "Rollback", "", r)>>
            /\ IF r # Nil
               THEN UNCHANGED <<zp, engine>>
               ELSE EngineRollback /\ resetTx /\ UNCHANGED nested
            /\ Leave(r, FALSE)

\* zp.DB().Exec(`INSERT INTO "t" VALUES (?)`, v): a write through the
\* executor DB() returns
Exec ==
    /\ UNCHANGED aside
    /\ lastOp' = "Exec"
    /\ lastRet' = Nil
    /\ lastVal' = NoVal
    /\ lastArg' = NoVal
    /\ \E v \in Values :
        IF DB = DBHandle
        THEN /\ Len(table) < MaxWrites
             /\ table' = Append(table, v)
             /\ lastCalls' = <<Call(DBHandle, "Exec", "", Nil)>>
             /\ UNCHANGED <<txData, savepoints, nextTx>>
        ELSE /\ Len(txData) < MaxWrites
             /\ txData' = Append(txData, v)
             /\ lastCalls' = <<Call(DB, "Exec", "", Nil)>>
             /\ UNCHANGED <<table, savepoints, nextTx>>
    /\ UNCHANGED <<zp, hist>>

Next == Tx \/ Commit \/ Rollback \/ Exec

Spec == Init /\ [][Next]_vars

(* ------------------ DB(), Close(), Ping(), Stats() -------------------- *)
\* zp.db, the receiver of Close(), Ping() and Stats()
BaseDB_current == current
BaseDB == DBHandle

\* a call of zp.DB() by the application
GetDB ==
    /\ UNCHANGED aside
    /\ lastOp' = "DB"
    /\ lastArg' = NoVal
    /\ lastRet' = Nil
    /\ lastVal' = DB
    /\ lastCalls' = <<>>
    /\ UNCHANGED <<zp, engine, hist>>

\* zp.Close()
Close ==
    /\ UNCHANGED aside
    /\ lastOp' = "Close"
    /\ lastArg' = NoVal
    /\ lastVal' = NoVal
    /\ \E r \in Results :
        /\ lastRet' = r
        /\ lastCalls' = <<Call(BaseDB, "Close", "", r)>>
    /\ UNCHANGED <<zp, engine, hist>>

\* zp.Ping()
Ping ==
    /\ UNCHANGED aside
    /\ lastOp' = "Ping"
    /\ lastArg' = NoVal
    /\ lastVal' = NoVal
    /\ \E r \in Results :
        /\ lastRet' = r
        /\ lastCalls' = <<Call(BaseDB, "Ping", "", r)>>
    /\ UNCHANGED <<zp, engine, hist>>

\* zp.Stats(): returns the sql.DBStats of the DB, no error
Stats ==
    /\ UNCHANGED aside
    /\ lastOp' = "Stats"
    /\ lastArg' = NoVal
    /\ lastVal' = NoVal
    /\ lastRet' = Nil
    /\ lastCalls' = <<Call(BaseDB, "Stats", "", Nil)>>
    /\ UNCHANGED <<zp, engine, hist>>

\* the provider surface of zesty.go:50-58, without statements
NextAccess == Tx \/ Commit \/ Rollback \/ GetDB \/ Close \/ Ping \/ Stats

SpecAccess == Init /\ [][NextAccess]_vars

(* --------------- TxSavepoint() and RollbackTo(level) ------------------ *)
(* zesty_test.go:40-93 calls TxSavepoint() and RollbackTo(sp) on the       *)
(* provider; zesty.go has neither, so both follow the specification of    *)
(* EnterTransaction() and RollbackTo(level).                               *)

\* the levels RollbackTo is called with
Levels == 1..(MaxDepth + 1)

\* the depth EnterTransaction() returns: 0 for a fresh transaction, n+1 for
\* a nested entry from depth n
TxSavepointLevel_before(wasOpen) == nested
TxSavepointLevel(wasOpen) == IF wasOpen THEN nested + 1 ELSE 0

\* RollbackTo(level) sets depth = level
RollbackToDepth_below(level) == level - 1
RollbackToDepth(level) == level

\* the savepoint of level is gone: level is above the current depth
RollbackToIsNoop_never(level) == FALSE
RollbackToIsNoop(level) == level > nested

\* EnterTransaction(): Tx() returning the depth
TxSavepointCall ==
    /\ UNCHANGED aside
    /\ lastOp' = "TxSavepoint"
    /\ lastArg' = NoVal
    /\ \E r \in Results :
        /\ lastRet' = r
        /\ lastVal' = IF r = Nil THEN TxSavepointLevel(tx # NilTx) ELSE NoVal
        /\ IF tx # NilTx
           THEN /\ nested < MaxDepth
                /\ Len(savepoints) < MaxSavepoints
                /\ lastCalls' = <<Call(tx, "Savepoint", TxSavepoint, r)>>
                /\ IF r # Nil
                   THEN UNCHANGED <<zp, engine, hist>>
                   ELSE /\ EngineSavepoint(TxSavepoint)
                        /\ nested' = nested + 1
                        /\ UNCHANGED <<current, tx>>
                        /\ Enter(TRUE)
           ELSE /\ nextTx < MaxTxSavepoint
                /\ nested < MaxDepth
                /\ lastCalls' = <<Call(DBHandle, "Begin", "", r)>>
                /\ IF r # Nil
                   THEN UNCHANGED <<zp, engine, hist>>
                   ELSE /\ EngineBegin
                        /\ TxOpen(nextTx + 1)
                        /\ Enter(FALSE)

\* RollbackTo(level)
RollbackTo ==
    /\ UNCHANGED aside
    /\ lastOp' = "RollbackTo"
    /\ lastVal' = NoVal
    /\ \E level \in Levels :
        /\ lastArg' = level
        /\ IF tx = NilTx
           THEN /\ lastRet' = ErrNoActiveTx
                /\ lastCalls' = <<>>
                /\ UNCHANGED <<zp, engine, hist>>
           ELSE IF RollbackToIsNoop(level)
           THEN /\ lastRet' = Nil
                /\ lastCalls' = <<>>
                /\ UNCHANGED <<zp, engine, hist>>
           ELSE \E r \in Results :
                /\ lastRet' = r
                /\ lastCalls' = <<Call(tx, "RollbackToSavepoint",
                                       SavepointName(level), r)>>
                /\ IF r # Nil
                   THEN UNCHANGED <<zp, engine, hist>>
                   ELSE /\ EngineRollbackTo(SavepointName(level))
                        /\ nested' = RollbackToDepth(level)
                        /\ UNCHANGED <<current, tx>>
                        /\ entered' = SubSeq(entered, 1, nested')
                        /\ run' = -1
                        /\ UNCHANGED <<outerClosed, peak, closedTxs>>
                        /\ rolledTo' = [k \in 1..Len(savepoints') |->
                               IF k = Len(savepoints') THEN TRUE ELSE rolledTo[k]]

NextSavepoint == TxSavepointCall \/ Commit \/ Rollback \/ RollbackTo \/ Exec

SpecSavepoint == Init /\ [][NextSavepoint]_vars

TypeOK ==
    /\ current \in {DBHandle} \cup 1..MaxTx
    /\ tx \in {NilTx} \cup 1..MaxTx
    /\ nested \in 0..MaxDepth
    /\ Len(table) <= MaxWrites /\ Len(txData) <= MaxWrites
    /\ Len(savepoints) <= MaxSavepoints
    /\ nextTx \in 0..MaxTx
    /\ lastRet \in Results \cup {ErrNoActiveTx}

(* ------------------ providers sharing one DB -------------------------- *)
\* the struct a provider's methods write: NewDBProvider returns a new
\* &zestyprovider{} on every call, so zp points to the caller's own struct
Store_shared(p, z) == [q \in Providers |-> z]
Store(p, z) == [provs EXCEPT ![p] = z]

\* zp.Tx() on the struct z, the DB / Tx call returning r, Begin handing out h
TxOf(z, r, h) ==
    IF z.tx # NilTx
    THEN IF r # Nil THEN z ELSE [z EXCEPT !.nested = z.nested + 1]
    ELSE IF r # Nil THEN z ELSE [z EXCEPT !.tx = h, !.current = h]

TxCallsOf(z, r) ==
    IF z.tx # NilTx
    THEN <<Call(z.tx, "Savepoint", SavepointName(z.nested + 1), r)>>
    ELSE <<Call(DBHandle, "Begin", "", r)>>

\* zp.Commit() on the struct z
CommitOf(z, r) ==
    IF z.tx = NilTx THEN z
    ELSE IF z.nested > 0 THEN [z EXCEPT !.nested = z.nested - 1]
    ELSE IF r # Nil THEN z
    ELSE [z EXCEPT !.current = DBHandle, !.tx = NilTx]

CommitCallsOf(z, r) ==
    IF z.tx = NilTx \/ z.nested > 0 THEN <<>>
    ELSE <<Call(z.tx, "Commit", "", r)>>

CommitRetOf(z, r) ==
    IF z.tx = NilTx THEN ErrNoActiveTx
    ELSE IF z.nested > 0 THEN Nil ELSE r

\* zp.Rollback() on the struct z
RollbackOf(z, r) ==
    IF z.tx = NilTx THEN z
    ELSE IF r # Nil THEN z
    ELSE IF z.nested > 0 THEN [z EXCEPT !.nested = z.nested - 1]
    ELSE [z EXCEPT !.current = DBHandle, !.tx = NilTx]

RollbackCallsOf(z, r) ==
    IF z.tx = NilTx THEN <<>>
    ELSE IF z.nested > 0
    THEN <<Call(z.tx, "RollbackToSavepoint", SavepointName(z.nested), r)>>
    ELSE <<Call(z.tx, "Rollback", "", r)>>

RollbackRetOf(z, r) == IF z.tx = NilTx THEN ErrNoActiveTx ELSE r

\* provider p calls Tx()
ProviderTx(p) ==
    /\ provs[p].nested < MaxDepth
    /\ provs[p].tx = NilTx => mNextTx < MaxTx
    /\ \E r \in Results :
        /\ provs' = Store(p, TxOf(provs[p], r, mNextTx + 1))
        /\ mNextTx' = IF provs[p].tx = NilTx /\ r = Nil
                      THEN mNextTx + 1 ELSE mNextTx
        /\ mLast' = [p |-> p, op |-> "Tx", ret |-> r,
                     calls |-> TxCallsOf(provs[p], r)]
    /\ UNCHANGED <<vars, regVars, lockOnly, mockVars, raceVars>>

\* provider p calls Commit()
ProviderCommit(p) ==
    /\ \E r \in Results :
        /\ provs' = Store(p, CommitOf(provs[p], r))
        /\ mLast' = [p |-> p, op |-> "Commit", ret |-> CommitRetOf(provs[p], r),
                     calls |-> CommitCallsOf(provs[p], r)]
    /\ UNCHANGED <<mNextTx, vars, regVars, lockOnly, mockVars, raceVars>>

\* provider p calls Rollback()
ProviderRollback(p) ==
    /\ \E r \in Results :
        /\ provs' = Store(p, RollbackOf(provs[p], r))
        /\ mLast' = [p |-> p, op |-> "Rollback",
                     ret |-> RollbackRetOf(provs[p], r),
                     calls |-> RollbackCallsOf(provs[p], r)]
    /\ UNCHANGED <<mNextTx, vars, regVars, lockOnly, mockVars, raceVars>>

MultiTx == \E p \in Providers : ProviderTx(p)
MultiCommit == \E p \in Providers : ProviderCommit(p)
MultiRollback == \E p \in Providers : ProviderRollback(p)

NextMulti == MultiTx \/ MultiCommit \/ MultiRollback

SpecMulti == Init /\ [][NextMulti]_multiVars

(* ------------------------------ registry ------------------------------ *)
\* _, ok := dbs[name]
Registered_never(name) == FALSE
Registered(name) == dbs[name] # NoDB

\* fmt.Errorf("DB name conflict '%s'", name)
ErrNameConflict(name) == "DB name conflict '" \o name \o "'"
\* fmt.Errorf("No such database '%s'", name)
ErrNoSuchDatabase(name) == "No such database '" \o name \o "'"

\* dbs[name] = db
MapStore(m, name, db) == [m EXCEPT ![name] = db]

\* delete(dbs, name)
MapDelete_kept(m, name) == m
MapDelete(m, name) == [m EXCEPT ![name] = NoDB]

\* &zestyprovider{current: db, db: db}
NewProvider(db) == [current |-> db, db |-> db, tx |-> NilTx, nested |-> 0]

\* RegisterDB(db, name), under dblock.Lock()
RegisterDB ==
    /\ \E db \in DBs, name \in Names :
        IF Registered(name)
        THEN /\ regLast' = [op |-> "RegisterDB", name |-> name, db |-> db,
                            ret |-> ErrNameConflict(name),
                            provider |-> NoProvider]
             /\ UNCHANGED <<dbs, lastReg>>
        ELSE /\ dbs' = MapStore(dbs, name, db)
             /\ lastReg' = [lastReg EXCEPT ![name] = db]
             /\ regLast' = [op |-> "RegisterDB", name |-> name, db |-> db,
                            ret |-> Nil, provider |-> NoProvider]
    /\ UNCHANGED <<vars, multiVars, lockOnly, mockVars, raceVars>>

\* UnregisterDB(name), under dblock.Lock()
UnregisterDB ==
    /\ \E name \in Names :
        IF ~Registered(name)
        THEN /\ regLast' = [op |-> "UnregisterDB", name |-> name, db |-> NoDB,
                            ret |-> ErrNoSuchDatabase(name),
                            provider |-> NoProvider]
             /\ UNCHANGED <<dbs, lastReg>>
        ELSE /\ dbs' = MapDelete(dbs, name)
             /\ lastReg' = [lastReg EXCEPT ![name] = NoDB]
             /\ regLast' = [op |-> "UnregisterDB", name |-> name, db |-> NoDB,
                            ret |-> Nil, provider |-> NoProvider]
    /\ UNCHANGED <<vars, multiVars, lockOnly, mockVars, raceVars>>

\* NewDBProvider(name), under dblock.RLock()
NewDBProvider ==
    /\ \E name \in Names :
        IF ~Registered(name)
        THEN regLast' = [op |-> "NewDBProvider", name |-> name, db |-> NoDB,
                         ret |-> ErrNoSuchDatabase(name),
                         provider |-> NoProvider]
        ELSE regLast' = [op |-> "NewDBProvider", name |-> name, db |-> NoDB,
                         ret |-> Nil,
                         provider |-> NewProvider(dbs[name])]
    /\ UNCHANGED <<dbs, lastReg, vars, multiVars, lockOnly, mockVars,
                   raceVars>>

NextRegistry == RegisterDB \/ UnregisterDB \/ NewDBProvider

SpecRegistry == Init /\ [][NextRegistry]_regVars

(* ---------------- the registry called from goroutines ----------------- *)
(* dblock is a sync.RWMutex: Lock() returns once no goroutine holds the    *)
(* lock in either mode, RLock() once no goroutine holds Lock().  The       *)
(* order in which blocked goroutines are woken is left open.               *)

\* dblock.Lock() can return
CanLock_ignoreReaders == writer = 0
CanLock == writer = 0 /\ readers = {}

\* dblock.RLock() can return
CanRLock == writer = 0

IsWriterOp(op) == op \in {"RegisterDB", "UnregisterDB"}

\* a goroutine calls RegisterDB(db, name) and reaches dblock.Lock()
CallRegisterDB ==
    /\ \E t \in Threads, db \in DBs, name \in LockNames :
        /\ pc[t] = "idle"
        /\ call' = [call EXCEPT ![t] = [op |-> "RegisterDB", name |-> name,
                                        db |-> db]]
        /\ pc' = [pc EXCEPT ![t] = "Lock"]
        /\ overlap' = [overlap EXCEPT ![t] = "none"]
    /\ UNCHANGED <<dbs, writer, readers, found, err>>
    /\ UNCHANGED <<vars, multiVars, regLast, lastReg, mockVars, raceVars>>

\* a goroutine calls UnregisterDB(name) and reaches dblock.Lock()
CallUnregisterDB ==
    /\ \E t \in Threads, name \in LockNames :
        /\ pc[t] = "idle"
        /\ call' = [call EXCEPT ![t] = [op |-> "UnregisterDB", name |-> name,
                                        db |-> NoDB]]
        /\ pc' = [pc EXCEPT ![t] = "Lock"]
        /\ overlap' = [overlap EXCEPT ![t] = "none"]
    /\ UNCHANGED <<dbs, writer, readers, found, err>>
    /\ UNCHANGED <<vars, multiVars, regLast, lastReg, mockVars, raceVars>>

\* a goroutine calls NewDBProvider(name) and reaches dblock.RLock()
CallNewDBProvider ==
    /\ \E t \in Threads, name \in LockNames :
        /\ pc[t] = "idle"
        /\ call' = [call EXCEPT ![t] = [op |-> "NewDBProvider", name |-> name,
                                        db |-> NoDB]]
        /\ pc' = [pc EXCEPT ![t] = "RLock"]
        /\ overlap' = [overlap EXCEPT ![t] = "none"]
    /\ UNCHANGED <<dbs, writer, readers, found, err>>
    /\ UNCHANGED <<vars, multiVars, regLast, lastReg, mockVars, raceVars>>

\* dblock.Lock() returns
Lock ==
    /\ \E t \in Threads :
        /\ pc[t] = "Lock"
        /\ CanLock
        /\ writer' = t
        /\ pc' = [pc EXCEPT ![t] = "lookup"]
    /\ UNCHANGED <<dbs, readers, call, found, err, overlap>>
    /\ UNCHANGED <<vars, multiVars, regLast, lastReg, mockVars, raceVars>>

\* dblock.RLock() returns in goroutine t
RLockBy(t) ==
    /\ pc[t] = "RLock"
    /\ CanRLock
    /\ readers' = readers \cup {t}
    /\ pc' = [pc EXCEPT ![t] = "lookup"]
    /\ UNCHANGED <<dbs, writer, call, found, err, overlap>>
    /\ UNCHANGED <<vars, multiVars, regLast, lastReg, mockVars, raceVars>>

RLock == \E t \in Threads : RLockBy(t)

\* _, ok := dbs[name] (db, ok := dbs[name] in NewDBProvider)
LookupMap ==
    /\ \E t \in Threads :
        /\ pc[t] = "lookup"
        /\ found' = [found EXCEPT ![t] = dbs[call[t].name]]
        /\ pc' = [pc EXCEPT ![t] = "body"]
    /\ UNCHANGED <<dbs, writer, readers, call, err, overlap>>
    /\ UNCHANGED <<vars, multiVars, regLast, lastReg, mockVars, raceVars>>

\* RegisterDB after the lookup: the conflict error, or dbs[name] = db
StoreDB ==
    /\ \E t \in Threads :
        /\ pc[t] = "body" /\ call[t].op = "RegisterDB"
        /\ IF found[t] # NoDB
           THEN /\ err' = [err EXCEPT ![t] = ErrNameConflict(call[t].name)]
                /\ UNCHANGED dbs
           ELSE /\ dbs' = MapStore(dbs, call[t].name, call[t].db)
                /\ err' = [err EXCEPT ![t] = Nil]
        /\ pc' = [pc EXCEPT ![t] = "Unlock"]
    /\ UNCHANGED <<writer, readers, call, found, overlap>>
    /\ UNCHANGED <<vars, multiVars, regLast, lastReg, mockVars, raceVars>>

\* UnregisterDB after the lookup: the not-found error, or delete(dbs, name)
DeleteDB ==
    /\ \E t \in Threads :
        /\ pc[t] = "body" /\ call[t].op = "UnregisterDB"
        /\ IF found[t] = NoDB
           THEN /\ err' = [err EXCEPT ![t] = ErrNoSuchDatabase(call[t].name)]
                /\ UNCHANGED dbs
           ELSE /\ dbs' = MapDelete(dbs, call[t].name)
                /\ err' = [err EXCEPT ![t] = Nil]
        /\ pc' = [pc EXCEPT ![t] = "Unlock"]
    /\ UNCHANGED <<writer, readers, call, found, overlap>>
    /\ UNCHANGED <<vars, multiVars, regLast, lastReg, mockVars, raceVars>>

\* NewDBProvider after the lookup: the not-found error, or the provider
BuildProvider ==
    /\ \E t \in Threads :
        /\ pc[t] = "body" /\ call[t].op = "NewDBProvider"
        /\ err' = [err EXCEPT ![t] = IF found[t] = NoDB
                                     THEN ErrNoSuchDatabase(call[t].name)
                                     ELSE Nil]
        /\ pc' = [pc EXCEPT ![t] = "RUnlock"]
    /\ UNCHANGED <<dbs, writer, readers, call, found, overlap>>
    /\ UNCHANGED <<vars, multiVars, regLast, lastReg, mockVars, raceVars>>

\* history: what the return of goroutine t's call means to a RegisterDB of
\* the same name that goroutine u has in flight
Overlap(t, u) ==
    IF \/ u = t
       \/ pc[u] = "idle"
       \/ call[u].op # "RegisterDB"
       \/ call[u].name # call[t].name
       \/ err[t] # Nil
    THEN overlap[u]
    ELSE IF call[t].op = "RegisterDB" THEN "registered"
    ELSE IF call[t].op = "UnregisterDB" /\ overlap[u] = "registered"
         THEN "unregistered"
    ELSE overlap[u]

\* defer dblock.Unlock(): RegisterDB, UnregisterDB return
Unlock ==
    /\ \E t \in Threads :
        /\ pc[t] = "Unlock"
        /\ writer' = 0
        /\ pc' = [pc EXCEPT ![t] = "idle"]
        /\ overlap' = [u \in Threads |-> Overlap(t, u)]
        /\ call' = [call EXCEPT ![t] = NoCall]
        /\ found' = [found EXCEPT ![t] = NoDB]
        /\ err' = [err EXCEPT ![t] = Nil]
    /\ UNCHANGED <<dbs, readers>>
    /\ UNCHANGED <<vars, multiVars, regLast, lastReg, mockVars, raceVars>>

\* defer dblock.RUnlock(): NewDBProvider returns
RUnlock ==
    /\ \E t \in Threads :
        /\ pc[t] = "RUnlock"
        /\ readers' = readers \ {t}
        /\ pc' = [pc EXCEPT ![t] = "idle"]
        /\ call' = [call EXCEPT ![t] = NoCall]
        /\ found' = [found EXCEPT ![t] = NoDB]
        /\ err' = [err EXCEPT ![t] = Nil]
    /\ UNCHANGED <<dbs, writer, overlap>>
    /\ UNCHANGED <<vars, multiVars, regLast, lastReg, mockVars, raceVars>>

NextLock ==
    \/ CallRegisterDB \/ CallUnregisterDB \/ CallNewDBProvider
    \/ Lock \/ RLock \/ LookupMap
    \/ StoreDB \/ DeleteDB \/ BuildProvider
    \/ Unlock \/ RUnlock

SpecLock == Init /\ [][NextLock]_lockVars

\* goroutine t is between Lock() and Unlock(), between RLock() and RUnlock()
InWriter(t) == pc[t] \in {"lookup", "body", "Unlock"} /\ IsWriterOp(call[t].op)
InReader(t) ==
    pc[t] \in {"lookup", "body", "RUnlock"} /\ call[t].op = "NewDBProvider"

(* ------------------------- amock: the mock ----------------------------- *)
(* A Response is [id, Status, sticky, Cond, headers]: id stands for the    *)
(* pointer Expect returns, Cond for the conjunction of the filters added   *)
(* by On, OnIdentifier and OnFunc, the empty set for a nil Cond.  A        *)
(* request is [path, stack, method]: the segments of its URL path, the     *)
(* functions on the goroutine's stack when RoundTrip runs, its method;     *)
(* a function is named without its package, as getFunctionName gives it    *)
(* once the "-fm" suffix of a method value is trimmed.                     *)

StatusOK == 200
StatusUnavailable == 503

\* the status of the n-th Expect call: the test expects 200, 200, 503
ExpectStatus(n) == IF n % 3 = 0 THEN StatusUnavailable ELSE StatusOK

NoHeader == "nil"
NoReq == [path |-> <<>>, stack |-> {}, method |-> ""]
NoResp == [id |-> 0, StatusCode |-> 0, Header |-> NoHeader]

\* the requests the client under test makes
Requests ==
    { [path |-> <<"foo", "f1">>,    stack |-> {"GetFoo"},  method |-> "GET"],
      [path |-> <<"foo", "f1234">>, stack |-> {"GetFoo2"}, method |-> "GET"],
      [path |-> <<"foo", "f1234">>, stack |-> {"GetFoo"},  method |-> "GET"],
      [path |-> <<"f1234">>,        stack |-> {"GetFoo"},  method |-> "GET"],
      [path |-> <<"foo", "f1234">>, stack |-> {"UpdateFoo"},
       method |-> "PUT"] }

\* the arguments the test gives to OnIdentifier, OnFunc and On, and a
\* header map for Headers
IdentArgs == {"f1234"}
FuncArgs == {"GetFoo", "UpdateFoo"}
OnArgs == {"GET"}
HeaderArgs == {"X-Foo: 1"}

\* what Body.Payload() may return as its error
PayloadErr == "json: unsupported type"
PayloadResults == {Nil, PayloadErr}

\* fmt.Errorf("unexpected call: %s\n%s", reason, debug.Stack()), the stack
\* trace left out
ErrUnexpectedCall(reason) == "unexpected call: " \o reason

\* mc.callers(): the functions of the stack that are potentialCallers
Callers(req) == req.stack \cap potentialCallers

\* one filter on a request: the closures of OnIdentifier, OnFunc and On.
\* OnIdentifier's regexp /[^/]+/IDENT(?:/.*|$) wants the identifier as a
\* whole path segment with a segment before it.
Holds(f, req) ==
    CASE f.kind = "OnIdentifier" ->
             \E i \in 2..Len(req.path) : req.path[i] = f.arg
      [] f.kind = "OnFunc" -> f.arg \in Callers(req)
      [] f.kind = "On" -> req.method = f.arg

\* condAND: every filter holds
condAND_any(fs, req) == \E f \in fs : Holds(f, req)
condAND(fs, req) == \A f \in fs : Holds(f, req)

\* rsp.Cond == nil || rsp.Cond(ctx)
Matches(rsp, req) == rsp.Cond = {} \/ condAND(rsp.Cond, req)

\* the index the loop of RoundTrip breaks at, 0 if it runs to the end
FirstMatch_last(req) ==
    LET idx == {i \in 1..Len(Responses) : Matches(Responses[i], req)}
    IN  IF idx = {} THEN 0 ELSE CHOOSE i \in idx : \A j \in idx : j <= i
FirstMatch(req) ==
    LET idx == {i \in 1..Len(Responses) : Matches(Responses[i], req)}
    IN  IF idx = {} THEN 0 ELSE CHOOSE i \in idx : \A j \in idx : i <= j

\* append(mc.Responses[:i], mc.Responses[i+1:]...)
DeleteAt(rs, i) == SubSeq(rs, 1, i - 1) \o SubSeq(rs, i + 1, Len(rs))

\* the list after RoundTrip selected Responses[i]
AfterSelect_always(i) == DeleteAt(Responses, i)
AfterSelect_never(i) == Responses
AfterSelect(i) ==
    IF ~Responses[i].sticky THEN DeleteAt(Responses, i) ELSE Responses

\* the responses AssertEmpty counts
Remaining_all == Len(Responses)
Remaining == Cardinality({i \in 1..Len(Responses) : ~Responses[i].sticky})

\* r.addCond(cond)
addCond(i, f) == [Responses EXCEPT ![i].Cond = @ \cup {f}]

\* the filters the test may add; the settings the list carries: its
\* filters, its header maps and its sticky flags
Filters ==
    {[kind |-> "OnIdentifier", arg |-> a] : a \in IdentArgs}
        \cup {[kind |-> "OnFunc", arg |-> a] : a \in FuncArgs}
        \cup {[kind |-> "On", arg |-> a] : a \in OnArgs}
NumSettings ==
    Cardinality({x \in (1..Len(Responses)) \X Filters :
                    x[2] \in Responses[x[1]].Cond})
        + Cardinality({i \in 1..Len(Responses) :
                          Responses[i].headers # NoHeader})
        + Cardinality({i \in 1..Len(Responses) : Responses[i].sticky})

\* mc.Expect(status, body)
Expect ==
    /\ created < MaxExpect
    /\ Responses' = Append(Responses,
                           [id |-> created + 1,
                            Status |-> ExpectStatus(created + 1),
                            sticky |-> FALSE, Cond |-> {},
                            headers |-> NoHeader])
    /\ created' = created + 1
    /\ mOp' = "Expect" /\ mReq' = NoReq /\ mResp' = NoResp /\ mErr' = Nil
    /\ UNCHANGED <<potentialCallers, given>>
    /\ UNCHANGED <<vars, multiVars, regVars, lockOnly, raceVars>>

\* r.Sticky() on a response of the list
Sticky ==
    /\ NumSettings < MaxSettings
    /\ \E i \in 1..Len(Responses) :
        Responses' = [Responses EXCEPT ![i].sticky = TRUE]
    /\ mOp' = "Sticky" /\ mReq' = NoReq /\ mResp' = NoResp /\ mErr' = Nil
    /\ UNCHANGED <<potentialCallers, created, given>>
    /\ UNCHANGED <<vars, multiVars, regVars, lockOnly, raceVars>>

\* r.Headers(h) on a response of the list
Headers ==
    /\ NumSettings < MaxSettings
    /\ \E i \in 1..Len(Responses), h \in HeaderArgs :
        Responses' = [Responses EXCEPT ![i].headers = h]
    /\ mOp' = "Headers" /\ mReq' = NoReq /\ mResp' = NoResp /\ mErr' = Nil
    /\ UNCHANGED <<potentialCallers, created, given>>
    /\ UNCHANGED <<vars, multiVars, regVars, lockOnly, raceVars>>

\* r.OnIdentifier(ident)
OnIdentifier ==
    /\ NumSettings < MaxSettings
    /\ \E i \in 1..Len(Responses), ident \in IdentArgs :
        Responses' = addCond(i, [kind |-> "OnIdentifier", arg |-> ident])
    /\ mOp' = "OnIdentifier"
    /\ mReq' = NoReq /\ mResp' = NoResp /\ mErr' = Nil
    /\ UNCHANGED <<potentialCallers, created, given>>
    /\ UNCHANGED <<vars, multiVars, regVars, lockOnly, raceVars>>

\* r.OnFunc(callerFunc), caller being getFunctionName(callerFunc)
OnFunc ==
    /\ NumSettings < MaxSettings
    /\ \E i \in 1..Len(Responses), caller \in FuncArgs :
        /\ potentialCallers' = potentialCallers \cup {caller}
        /\ Responses' = addCond(i, [kind |-> "OnFunc", arg |-> caller])
    /\ mOp' = "OnFunc" /\ mReq' = NoReq /\ mResp' = NoResp /\ mErr' = Nil
    /\ UNCHANGED <<created, given>>
    /\ UNCHANGED <<vars, multiVars, regVars, lockOnly, raceVars>>

\* r.On(f), f comparing c.Request.Method
On ==
    /\ NumSettings < MaxSettings
    /\ \E i \in 1..Len(Responses), method \in OnArgs :
        Responses' = addCond(i, [kind |-> "On", arg |-> method])
    /\ mOp' = "On" /\ mReq' = NoReq /\ mResp' = NoResp /\ mErr' = Nil
    /\ UNCHANGED <<potentialCallers, created, given>>
    /\ UNCHANGED <<vars, multiVars, regVars, lockOnly, raceVars>>

\* the *http.Response built from resp
HTTPResponse(resp) ==
    [id |-> resp.id, StatusCode |-> resp.Status, Header |-> resp.headers]

\* mc.RoundTrip(r)
RoundTrip ==
    /\ mOp' = "RoundTrip"
    /\ \E req \in Requests :
        /\ mReq' = req
        /\ IF Len(Responses) = 0
           THEN /\ mResp' = NoResp
                /\ mErr' = ErrUnexpectedCall("no more expected responses")
                /\ UNCHANGED <<Responses, given>>
           ELSE IF FirstMatch(req) = 0
           THEN /\ mResp' = NoResp
                /\ mErr' = ErrUnexpectedCall(
                               "remaining responses have unmet conditions")
                /\ UNCHANGED <<Responses, given>>
           ELSE LET i == FirstMatch(req) IN
                /\ Responses' = AfterSelect(i)
                /\ \E e \in PayloadResults :
                    IF e # Nil
                    THEN /\ mResp' = NoResp
                         /\ mErr' = e
                         /\ UNCHANGED given
                    ELSE /\ mResp' = HTTPResponse(Responses[i])
                         /\ mErr' = Nil
                         /\ given' = given \cup {Responses[i].id}
    /\ UNCHANGED <<potentialCallers, created>>
    /\ UNCHANGED <<vars, multiVars, regVars, lockOnly, raceVars>>

\* mc.AssertEmpty(t): mErr is what t.Error was given, Nil if not called
AssertEmpty ==
    /\ mOp' = "AssertEmpty" /\ mReq' = NoReq /\ mResp' = NoResp
    /\ mErr' = IF Remaining > 0
               THEN Itoa(Remaining) \o " expected responses remaining"
               ELSE Nil
    /\ UNCHANGED <<Responses, potentialCallers, created, given>>
    /\ UNCHANGED <<vars, multiVars, regVars, lockOnly, raceVars>>

NextMock ==
    \/ Expect \/ Sticky \/ Headers \/ OnIdentifier \/ OnFunc \/ On
    \/ RoundTrip \/ AssertEmpty

SpecMock == Init /\ [][NextMock]_mockVars

(* ------------------- amock: the mock and its mutex --------------------- *)
(* The methods of one mock called from several goroutines.  A goroutine    *)
(* is "idle", waits in "Lock", or is inside a part of its method that      *)
(* reads and writes fields of the mock and of its responses; Accesses      *)
(* gives the fields it touches there.                                      *)

\* the responses the goroutines hold pointers to, all of them listed
Resps == {1, 2}

\* the methods that begin with mc.Lock() (r.Mock.Lock())
LockedOps == {"Expect", "Sticky", "Headers", "OnIdentifier", "On",
              "RoundTrip", "AssertEmpty"}
OnResponse == {"Sticky", "Headers", "OnIdentifier", "On", "OnFunc"}

Field(f, r) == [field |-> f, r |-> r]
Read(f, r) == [loc |-> Field(f, r), write |-> FALSE]
Write(f, r) == [loc |-> Field(f, r), write |-> TRUE]

\* what the body of a method reads and writes
BodyAccesses(op, r) ==
    CASE op = "Expect" -> {Write("Responses", 0)}
      [] op = "Sticky" -> {Write("sticky", r)}
      [] op = "Headers" -> {Write("headers", r)}
      [] op \in {"OnIdentifier", "On"} -> {Read("Cond", r), Write("Cond", r)}
      [] op = "RoundTrip" ->
             {Read("Responses", 0), Write("Responses", 0)}
                 \cup {Read("Cond", q) : q \in Resps}
                 \cup {Read("sticky", q) : q \in Resps}
                 \cup {Read("headers", q) : q \in Resps}
                 \cup (IF funcCond = {} THEN {}
                       ELSE {Read("potentialCallers", 0)})
      [] op = "AssertEmpty" ->
             {Read("Responses", 0)} \cup {Read("sticky", q) : q \in Resps}

\* what goroutine t is reading and writing where it is
Accesses(t) ==
    CASE at[t] = "body" -> BodyAccesses(doing[t].op, doing[t].r)
      [] at[t] = "potentialCaller" -> {Write("potentialCallers", 0)}
      [] at[t] = "addCond" ->
             {Read("Cond", doing[t].r), Write("Cond", doing[t].r)}
      [] OTHER -> {}

\* a goroutine calls a method that takes the mutex
CallLocked ==
    /\ \E t \in Threads, op \in LockedOps, r \in Resps :
        /\ at[t] = "idle"
        /\ doing' = [doing EXCEPT
                         ![t] = [op |-> op,
                                  r |-> IF op \in OnResponse THEN r ELSE 0]]
        /\ at' = [at EXCEPT ![t] = "Lock"]
    /\ UNCHANGED <<Mutex, funcCond>>
    /\ UNCHANGED <<vars, multiVars, regVars, lockOnly, mockVars>>

\* mc.Lock() returns
MockLock ==
    /\ \E t \in Threads :
        /\ at[t] = "Lock"
        /\ Mutex = 0
        /\ Mutex' = t
        /\ at' = [at EXCEPT ![t] = "body"]
    /\ UNCHANGED <<doing, funcCond>>
    /\ UNCHANGED <<vars, multiVars, regVars, lockOnly, mockVars>>

\* the body is done, defer mc.Unlock()
MockUnlock ==
    /\ \E t \in Threads :
        /\ at[t] = "body"
        /\ Mutex' = 0
        /\ at' = [at EXCEPT ![t] = "idle"]
        /\ doing' = [doing EXCEPT ![t] = [op |-> "none", r |-> 0]]
    /\ UNCHANGED funcCond
    /\ UNCHANGED <<vars, multiVars, regVars, lockOnly, mockVars>>

\* r.OnFunc(callerFunc) up to r.Mock.potentialCaller(caller)
OnFuncPotentialCaller ==
    /\ \E t \in Threads, r \in Resps :
        /\ at[t] = "idle"
        /\ doing' = [doing EXCEPT ![t] = [op |-> "OnFunc", r |-> r]]
        /\ at' = [at EXCEPT ![t] = "potentialCaller"]
    /\ UNCHANGED <<Mutex, funcCond>>
    /\ UNCHANGED <<vars, multiVars, regVars, lockOnly, mockVars>>

\* r.OnFunc(callerFunc): r.addCond(cond)
OnFuncAddCond ==
    /\ \E t \in Threads :
        /\ at[t] = "potentialCaller"
        /\ at' = [at EXCEPT ![t] = "addCond"]
    /\ UNCHANGED <<Mutex, doing, funcCond>>
    /\ UNCHANGED <<vars, multiVars, regVars, lockOnly, mockVars>>

\* r.OnFunc(callerFunc) returns
OnFuncReturn ==
    /\ \E t \in Threads :
        /\ at[t] = "addCond"
        /\ funcCond' = funcCond \cup {doing[t].r}
        /\ at' = [at EXCEPT ![t] = "idle"]
        /\ doing' = [doing EXCEPT ![t] = [op |-> "none", r |-> 0]]
    /\ UNCHANGED Mutex
    /\ UNCHANGED <<vars, multiVars, regVars, lockOnly, mockVars>>

NextRace ==
    \/ CallLocked \/ MockLock \/ MockUnlock
    \/ OnFuncPotentialCaller \/ OnFuncAddCond \/ OnFuncReturn

SpecRace == Init /\ [][NextRace]_raceVars

\* two goroutines touch the same field at once, one of them writing it
DataRace(t, u) ==
    /\ t # u
    /\ \E a \in Accesses(t), b \in Accesses(u) :
        a.loc = b.loc /\ (a.write \/ b.write)

(* ------------------------------ claims -------------------------------- *)
IsCommitOrRollback(op) == op \in {"Commit", "Rollback"}

\* C1: in every reachable state the transaction handle is present iff the
\* current executor is that transaction (otherwise the current executor is
\* the base resource), nested > 0 implies a transaction is present, and
\* nested is never negative.
C1_ProviderInvariant ==
    /\ (tx # NilTx) <=> (current = tx)
    /\ (tx = NilTx) => (current = DBHandle)
    /\ (nested > 0) => (tx # NilTx)
    /\ nested >= 0

\* a failed nested Rollback() leaves a nested transaction on the provider
C1_Witness ==
    /\ lastOp = "Rollback" /\ lastRet \in UnderlyingErrs
    /\ tx # NilTx /\ current = tx /\ nested = 2

\* C2: after n >= 1 consecutive successful Tx() calls from Idle, with no
\* Commit()/Rollback() in between, nested equals n-1.
C2_DepthAfterConsecutiveTx ==
    (run >= 1) => (tx # NilTx /\ nested = run - 1)

C2_Witness == lastOp = "Tx" /\ lastRet = Nil /\ run = 3 /\ nested = 2

\* C3: Commit() and Rollback() on an Idle provider return the "No active Tx"
\* error, issue no call on the DB or a Tx, and leave current, tx and nested
\* (and the database) unchanged.
C3_IdleCommitRollbackFails ==
    [][(tx = NilTx /\ IsCommitOrRollback(lastOp'))
        => (/\ lastRet' = ErrNoActiveTx
            /\ lastCalls' = <<>>
            /\ UNCHANGED <<zp, engine>>)]_vars

C3_Witness ==
    /\ lastOp = "Rollback" /\ lastRet = ErrNoActiveTx
    /\ tx = NilTx /\ current = DBHandle /\ table # <<>>

\* C4: once the outermost Commit()/Rollback() has succeeded, every following
\* Commit()/Rollback() fails with "No active Tx" until Tx() opens a new
\* transaction, whatever depth had been reached before.
C4_AfterOutermostCloseFails ==
    [][(outerClosed /\ IsCommitOrRollback(lastOp'))
        => (lastRet' = ErrNoActiveTx /\ lastCalls' = <<>>)]_vars

C4_Witness ==
    /\ outerClosed /\ peak >= 2
    /\ lastOp = "Commit" /\ lastRet = ErrNoActiveTx

\* C5: Commit() at nested >= 1 issues no call on the transaction, takes
\* nested down by one and leaves tx and current unchanged; a Tx.Commit call
\* is issued only by Commit() at nested = 0, and rows written inside the
\* transaction reach the table only with that call.
C5_NestedCommitIsVirtual ==
    [][/\ (lastOp' = "Commit" /\ tx # NilTx /\ nested >= 1)
            => (/\ lastCalls' = <<>>
                /\ lastRet' = Nil
                /\ nested' = nested - 1
                /\ UNCHANGED <<current, tx, engine>>)
       /\ (\E i \in DOMAIN lastCalls' : lastCalls'[i].op = "Commit")
            => (lastOp' = "Commit" /\ tx # NilTx /\ nested = 0)
       /\ (table' # table)
            => \/ (lastOp' = "Exec" /\ DB = DBHandle)
               \/ (lastOp' = "Commit" /\ tx # NilTx /\ nested = 0
                   /\ lastRet' = Nil)]_vars

\* a nested Commit() went through with uncommitted rows in the transaction
C5_Witness ==
    /\ lastOp = "Commit" /\ lastRet = Nil /\ lastCalls = <<>>
    /\ tx # NilTx /\ nested = 1 /\ peak = 2
    /\ txData # table

\* C6: Rollback() at nested = n >= 1 issues RollbackToSavepoint on exactly
\* the name the Tx() that raised nested to n created; on success nested is
\* n-1 and the transaction stays; on failure current, tx, nested are unchanged.
C6_NestedRollbackTargetsItsSavepoint ==
    [][(lastOp' = "Rollback" /\ tx # NilTx /\ nested >= 1)
        => (/\ Len(entered) = nested
            /\ lastCalls' = <<Call(tx, "RollbackToSavepoint",
                                   entered[nested].name, lastRet')>>
            /\ (lastRet' = Nil =>
                   nested' = nested - 1 /\ UNCHANGED <<current, tx>>)
            /\ (lastRet' # Nil => UNCHANGED zp))]_vars

C6_Witness ==
    /\ lastOp = "Rollback" /\ lastRet = Nil
    /\ tx # NilTx /\ nested = 1
    /\ lastCalls = <<Call(tx, "RollbackToSavepoint", "tx-nested-2", Nil)>>

\* C7: a successful Rollback() at nested = n >= 1 undoes exactly the rows
\* written since the Tx() call that raised nested to n (rows of deeper,
\* already committed levels included) and keeps every earlier row, also when
\* level n was entered, committed and entered again before.
C7_NestedRollbackUndoesItsLevel ==
    [][(lastOp' = "Rollback" /\ tx # NilTx /\ nested >= 1 /\ lastRet' = Nil)
        => (/\ Len(entered) = nested
            /\ entered[nested].mark <= Len(txData)
            /\ txData' = SubSeq(txData, 1, entered[nested].mark)
            /\ table' = table)]_vars

\* level 1 was entered twice in this transaction, rows were written at
\* depth 0 before each, and the Rollback() went back to the second entry
C7_Witness ==
    /\ lastOp = "Rollback" /\ lastRet = Nil /\ tx # NilTx /\ nested = 0
    /\ Len(savepoints) = 2
    /\ savepoints[1].name = savepoints[2].name
    /\ savepoints[1].mark < savepoints[2].mark
    /\ txData # <<>> /\ Len(txData) = savepoints[2].mark

\* C8: Commit() (Rollback()) at nested = 0 with a transaction open issues
\* Tx.Commit (Tx.Rollback) on it and, when that succeeds, resets the provider
\* to Idle: tx nil, current the base DB, nested 0.
C8_OutermostCloseResets ==
    [][(IsCommitOrRollback(lastOp') /\ tx # NilTx /\ nested = 0)
        => (/\ lastCalls' = <<Call(tx, lastOp', "", lastRet')>>
            /\ (lastRet' = Nil =>
                   tx' = NilTx /\ current' = DBHandle /\ nested' = 0))]_vars

C8_Witness ==
    /\ lastOp = "Commit" /\ lastRet = Nil
    /\ lastCalls = <<Call(1, "Commit", "", Nil)>>
    /\ tx = NilTx /\ current = DBHandle /\ nested = 0
    /\ table # <<>>

\* C9: when the Begin, Savepoint, Commit, Rollback or RollbackToSavepoint
\* call fails, the provider method returns that same error, leaves current,
\* tx and nested as they were, and issues no further call.
C9_UnderlyingFailureSurfaces ==
    [][(/\ lastOp' \in {"Tx", "Commit", "Rollback"}
        /\ \E i \in DOMAIN lastCalls' : lastCalls'[i].ret # Nil)
        => (/\ Len(lastCalls') = 1
            /\ lastRet' = lastCalls'[1].ret
            /\ UNCHANGED zp)]_vars

\* a failed outermost Commit() left the provider Open
C9_Witness ==
    /\ lastOp = "Commit" /\ lastRet \in UnderlyingErrs
    /\ lastCalls = <<Call(tx, "Commit", "", lastRet)>>
    /\ tx # NilTx /\ nested = 0 /\ txData # table

\* C10: Tx() on an Idle provider calls Begin on the base DB exactly once; on
\* success tx is set and DB() returns that transaction from then on until
\* the outermost Commit()/Rollback() succeeds; on failure the provider stays
\* Idle.
C10_TxOpensAndSwitchesExecutor ==
    [][/\ (lastOp' = "Tx" /\ tx = NilTx)
            => (/\ lastCalls' = <<Call(DBHandle, "Begin", "", lastRet')>>
                /\ (lastRet' = Nil =>
                       tx' # NilTx /\ tx' # DBHandle /\ DB' = tx')
                /\ (lastRet' # Nil =>
                       UNCHANGED zp /\ DB' = DBHandle))
       /\ (/\ tx # NilTx
           /\ ~(IsCommitOrRollback(lastOp') /\ nested = 0 /\ lastRet' = Nil))
            => (tx' = tx /\ DB' = tx)]_vars

\* a statement ran on the transaction at depth 1, the table has not seen it
C10_Witness ==
    /\ lastOp = "Exec" /\ lastCalls = <<Call(tx, "Exec", "", Nil)>>
    /\ tx # NilTx /\ DB = tx /\ nested = 1
    /\ txData # table

\* C11: Tx() on a provider with a transaction open at nested = n does not
\* call Begin; it issues one Savepoint call whose name is formatted from n+1
\* alone; on success nested is n+1, on failure nested stays n.
C11_NestedTxCreatesSavepoint ==
    [][(lastOp' = "Tx" /\ tx # NilTx)
        => (/\ lastCalls' = <<Call(tx, "Savepoint",
                                   SavepointName(nested + 1), lastRet')>>
            /\ (lastRet' = Nil =>
                   nested' = nested + 1 /\ UNCHANGED <<current, tx>>)
            /\ (lastRet' # Nil => UNCHANGED zp))]_vars

\* a Tx() at depth 1 created the savepoint of depth 2 on the second
\* transaction of the provider
C11_Witness ==
    /\ lastOp = "Tx" /\ lastRet = Nil /\ tx = 2 /\ nested = 2
    /\ lastCalls = <<Call(tx, "Savepoint", "tx-nested-2", Nil)>>
    /\ nextTx = 2

\* C12: a successful EnterTransaction() returns the depth the unit of work
\* now sits at: 0 when it opened the transaction from Idle, n+1 when it
\* nested from depth n.
C12_TxSavepointReturnsDepth ==
    [][(lastOp' = "TxSavepoint" /\ lastRet' = Nil)
        => (/\ lastVal' = IF tx = NilTx THEN 0 ELSE nested + 1
            /\ lastVal' = nested')]_vars

\* the second call of the test: sp1 == 1
C12_Witness ==
    /\ lastOp = "TxSavepoint" /\ lastRet = Nil /\ lastVal = 1
    /\ tx # NilTx /\ nested = 1 /\ txData # <<>>

\* C13: RollbackTo(level) with 1 <= level <= depth rolls back to the
\* savepoint recorded for that level and sets depth = level.
C13_RollbackToLevel ==
    [][(/\ lastOp' = "RollbackTo" /\ tx # NilTx
        /\ lastArg' \in 1..nested /\ lastRet' = Nil)
        => (/\ Len(entered) = nested
            /\ lastCalls' = <<Call(tx, "RollbackToSavepoint",
                                   entered[lastArg'].name, Nil)>>
            /\ txData' = SubSeq(txData, 1, entered[lastArg'].mark)
            /\ nested' = lastArg'
            /\ UNCHANGED <<current, tx, table>>)]_vars

\* a jump from depth 2 to level 1 that undid rows
C13_Witness ==
    /\ lastOp = "RollbackTo" /\ lastRet = Nil /\ lastArg = 1
    /\ tx # NilTx /\ nested = 1 /\ peak = 2
    /\ Len(savepoints) = 1 /\ Len(txData) = savepoints[1].mark
    /\ txData # <<>>

\* C14: RollbackTo(level) with level above the current depth, transaction
\* open, returns nil and is a no-op: no call is issued and depth, tx, current
\* and the database are unchanged, as are the levels a later Rollback() sees.
C14_RedundantRollbackToIsNoop ==
    [][(lastOp' = "RollbackTo" /\ tx # NilTx /\ lastArg' > nested)
        => (/\ lastRet' = Nil
            /\ lastCalls' = <<>>
            /\ UNCHANGED <<zp, engine, entered>>)]_vars

\* the test: Rollback() took depth 1 to 0, then RollbackTo(sp1) with sp1 = 1
C14_Witness ==
    /\ lastOp = "RollbackTo" /\ lastRet = Nil /\ lastArg = 1
    /\ tx # NilTx /\ nested = 0 /\ lastCalls = <<>>
    /\ Len(savepoints) = 1 /\ rolledTo = <<TRUE>>
    /\ txData # <<>>

TxCallOps == {"Commit", "Rollback", "Savepoint", "RollbackToSavepoint"}

\* C15 as claimed: after the outermost transaction of a provider has been
\* closed, every operation on it (Tx(), a statement through DB(), Commit(),
\* Rollback()) fails with "No active Tx" and the base DB is not operated on.
C15_ClosedProviderRejectsAll ==
    [][(outerClosed /\ lastOp' \in {"Tx", "Exec", "Commit", "Rollback"})
        => (/\ lastRet' = ErrNoActiveTx
            /\ \A i \in DOMAIN lastCalls' : lastCalls'[i].recv # DBHandle)]_vars

\* C15 as amended: after the outermost close, Commit() and Rollback() fail
\* with "No active Tx" and issue no call; Tx() calls Begin on the base DB
\* again and returns what Begin returns; a statement through DB() runs on
\* the base DB and reaches the table.
C15_ClosedProviderFallsBackToBase ==
    [][outerClosed
        => (/\ IsCommitOrRollback(lastOp')
                => (lastRet' = ErrNoActiveTx /\ lastCalls' = <<>>)
            /\ (lastOp' = "Tx")
                => (/\ lastCalls' = <<Call(DBHandle, "Begin", "", lastRet')>>
                    /\ lastRet' # ErrNoActiveTx)
            /\ (lastOp' = "Exec")
                => (/\ lastCalls' = <<Call(DBHandle, "Exec", "", Nil)>>
                    /\ lastRet' = Nil
                    /\ Len(table') = Len(table) + 1
                    /\ UNCHANGED txData))]_vars

\* the test's last statement: after the outermost Rollback() a statement
\* went through DB() to the base DB
C15_Witness ==
    /\ outerClosed /\ closedTxs = {1} /\ tx = NilTx
    /\ lastOp = "Exec" /\ lastRet = Nil
    /\ lastCalls = <<Call(DBHandle, "Exec", "", Nil)>>
    /\ table # <<>>

\* C16: a transaction is successfully committed or rolled back at most once,
\* and after that the provider issues no Commit, Rollback, Savepoint or
\* RollbackToSavepoint call on it.
C16_ClosedTxNeverUsedAgain ==
    [][/\ \A i \in DOMAIN lastCalls' :
            (lastCalls'[i].op \in TxCallOps /\ vars' # vars)
                => lastCalls'[i].recv \notin closedTxs
       /\ (closedTxs' # closedTxs)
            => (/\ tx \in 1..nextTx /\ tx \notin closedTxs
                /\ closedTxs' = closedTxs \cup {tx}
                /\ lastCalls' = <<Call(tx, lastOp', "", Nil)>>)]_vars

\* the second transaction is rolled back to a savepoint while the first one
\* is closed
C16_Witness ==
    /\ closedTxs = {1} /\ tx = 2 /\ nested = 0
    /\ lastOp = "Rollback" /\ lastRet = Nil
    /\ lastCalls = <<Call(2, "RollbackToSavepoint", "tx-nested-1", Nil)>>

\* C17: with several providers built from the same DB and their calls
\* interleaved, no two providers hold the same transaction, and a Tx(),
\* Commit() or Rollback() on one provider changes no field of another.
C17_ProvidersAreIndependent ==
    [][/\ \A p, q \in Providers :
            (p # q /\ provs'[p].tx # NilTx) => provs'[p].tx # provs'[q].tx
       /\ \A q \in Providers : q # mLast'.p => provs'[q] = provs[q]]_multiVars

\* both providers are inside a transaction of their own, at different depths
C17_Witness ==
    /\ provs[1].tx # NilTx /\ provs[2].tx # NilTx
    /\ provs[1].tx # provs[2].tx
    /\ provs[1].nested = 2 /\ provs[2].nested = 0
    /\ mLast.p = 2 /\ mLast.op = "Rollback" /\ mLast.ret \in UnderlyingErrs

\* C18 as claimed: within one transaction Tx() never creates a savepoint
\* under a name that an earlier savepoint, neither rolled back to nor
\* released, still carries.
C18_SavepointNamesNeverReused ==
    [][(lastOp' = "Tx" /\ tx # NilTx /\ lastRet' = Nil)
        => \A i \in 1..Len(savepoints) :
              savepoints[i].name = lastCalls'[1].arg => rolledTo[i]]_vars

\* C18 as amended: the name is formatted from the nesting level alone, and
\* Tx() never creates a savepoint under the name of a level that is still
\* open; the names of the open levels are pairwise distinct.  A name comes
\* back only for a level left by Rollback() or by a nested Commit().
C18_OpenLevelsHaveDistinctNames ==
    [][(lastOp' = "Tx" /\ tx # NilTx /\ lastRet' = Nil)
        => (/\ lastCalls'[1].arg = SavepointName(nested + 1)
            /\ Len(entered) = nested
            /\ \A k \in 1..nested : entered[k].name # lastCalls'[1].arg
            /\ \A j, k \in 1..Len(entered') :
                  j # k => entered'[j].name # entered'[k].name)]_vars

\* Tx, Tx, Commit, Tx: two savepoints tx-nested-1, neither rolled back to
C18_Witness ==
    /\ lastOp = "Tx" /\ lastRet = Nil /\ tx # NilTx /\ nested = 1
    /\ Len(savepoints) = 2
    /\ savepoints[1].name = "tx-nested-1"
    /\ savepoints[2].name = "tx-nested-1"
    /\ rolledTo = <<FALSE, FALSE>>

\* C19: DB(), Close(), Ping() and Stats() are enabled in every provider
\* state and leave current, tx, nested and the database unchanged; DB()
\* returns current; Close(), Ping() and Stats() call the base DB, also
\* while a transaction is open.
C19_AccessorsAreFramed ==
    /\ [](ENABLED GetDB /\ ENABLED Close /\ ENABLED Ping /\ ENABLED Stats)
    /\ [][(lastOp' \in {"DB", "Close", "Ping", "Stats"})
            => (/\ UNCHANGED <<zp, engine>>
                /\ (lastOp' = "DB")
                     => (/\ lastVal' = current
                         /\ lastRet' = Nil
                         /\ lastCalls' = <<>>)
                /\ (lastOp' # "DB")
                     => lastCalls' = <<Call(DBHandle, lastOp', "", lastRet')>>
                /\ (lastOp' = "Stats") => lastRet' = Nil)]_vars

\* Close() went to the base DB while the provider was nested
C19_Witness ==
    /\ lastOp = "Close" /\ lastRet = Nil
    /\ lastCalls = <<Call(DBHandle, "Close", "", Nil)>>
    /\ tx # NilTx /\ current = tx /\ nested = 2

\* C20: RegisterDB of a registered name fails with the name-conflict error,
\* UnregisterDB of an unregistered name fails with the no-such-database
\* error; neither changes dbs, and NewDBProvider keeps returning the DB
\* first registered under the name.
C20_RegistryRejectsWithoutChange ==
    [][/\ (regLast'.op = "RegisterDB" /\ dbs[regLast'.name] # NoDB)
            => (/\ regLast'.ret = ErrNameConflict(regLast'.name)
                /\ regLast'.ret # Nil
                /\ dbs' = dbs)
       /\ (regLast'.op = "UnregisterDB" /\ dbs[regLast'.name] = NoDB)
            => (/\ regLast'.ret = ErrNoSuchDatabase(regLast'.name)
                /\ regLast'.ret # Nil
                /\ dbs' = dbs)
       /\ (regLast'.op = "NewDBProvider" /\ dbs[regLast'.name] # NoDB)
            => (/\ regLast'.ret = Nil
                /\ regLast'.provider.db = dbs[regLast'.name]
                /\ dbs' = dbs)]_regVars

\* the second RegisterDB of "test", with another DB, was refused
C20_Witness ==
    /\ regLast.op = "RegisterDB" /\ regLast.name = "test"
    /\ regLast.db = "dbB" /\ dbs["test"] = "dbA"
    /\ regLast.ret = "DB name conflict 'test'"

\* C21: after any sequence of RegisterDB and UnregisterDB calls,
\* NewDBProvider(name) succeeds exactly when the last successful call on
\* the name was a RegisterDB; it then returns an Idle provider (tx nil,
\* nested 0) whose db and current are the DB given to that RegisterDB;
\* otherwise it returns the no-such-database error and no provider.
C21_LookupFollowsLastRegister ==
    [][(regLast'.op = "NewDBProvider")
        => LET name == regLast'.name IN
           /\ (regLast'.ret = Nil) <=> (lastReg[name] # NoDB)
           /\ (lastReg[name] # NoDB)
                => regLast'.provider = [current |-> lastReg[name],
                                        db |-> lastReg[name],
                                        tx |-> NilTx, nested |-> 0]
           /\ (lastReg[name] = NoDB)
                => (/\ regLast'.ret = ErrNoSuchDatabase(name)
                    /\ regLast'.provider = NoProvider)]_regVars

\* a lookup of "test" returned an Idle provider on dbB, the DB of its latest
\* RegisterDB, while "db" is not registered
C21_Witness ==
    /\ regLast.op = "NewDBProvider" /\ regLast.name = "test"
    /\ regLast.ret = Nil
    /\ regLast.provider.db = "dbB" /\ regLast.provider.current = "dbB"
    /\ regLast.provider.tx = NilTx /\ regLast.provider.nested = 0
    /\ dbs["db"] = NoDB /\ lastReg["test"] = "dbB"

\* the registry is held by at most one writer, and by no reader while a
\* writer is inside
Serialized ==
    /\ \A t, u \in Threads : (InWriter(t) /\ InWriter(u)) => t = u
    /\ \A t, u \in Threads : ~(InWriter(t) /\ InReader(u))

\* readers do not keep each other out
ReadersOverlap ==
    \A t \in Threads :
        (pc[t] = "RLock" /\ ~\E u \in Threads : InWriter(u))
            => ENABLED RLockBy(t)

\* goroutine t's RegisterDB stores its DB and is going to return nil
RegisterSucceeds(t) ==
    /\ pc[t] = "body" /\ call[t].op = "RegisterDB"
    /\ pc'[t] = "Unlock" /\ err'[t] = Nil

\* C22 as claimed: with RegisterDB, UnregisterDB and NewDBProvider called
\* from several goroutines, at most one writer is inside the registry, no
\* NewDBProvider reads the map while a writer is inside, NewDBProvider
\* calls may overlap, and of two RegisterDB calls of the same name that
\* overlap in time never both return nil.
C22_ConcurrentRegistersNeverBothSucceed ==
    /\ [](Serialized /\ ReadersOverlap)
    /\ [][\A t \in Threads :
            RegisterSucceeds(t) => overlap[t] = "none"]_lockVars

\* C22 as amended: the registry is serialized as claimed, and a RegisterDB
\* returns nil only if the name is not in the map when it stores its DB: of
\* two overlapping RegisterDB calls of the same name both return nil only
\* when an UnregisterDB of the name succeeded after the first and before
\* the second stored.
C22_RegistryIsSerialized ==
    /\ [](Serialized /\ ReadersOverlap)
    /\ [][\A t \in Threads :
            RegisterSucceeds(t)
                => (/\ overlap[t] # "registered"
                    /\ dbs[call[t].name] = NoDB
                    /\ dbs'[call[t].name] = call[t].db
                    /\ writer = t /\ readers = {})]_lockVars

\* goroutine 1 stored its DB under "test" while holding the lock, after a
\* RegisterDB and an UnregisterDB of "test" returned nil during its call;
\* goroutine 2 waits in RLock()
C22_Witness ==
    /\ pc[1] = "Unlock" /\ call[1].op = "RegisterDB" /\ call[1].name = "test"
    /\ err[1] = Nil /\ overlap[1] = "unregistered"
    /\ dbs["test"] = call[1].db /\ writer = 1
    /\ pc[2] = "RLock" /\ call[2].name = "test"

\* every filter of the i-th listed response holds for req (none: no filter)
AllHold(i, req) == \A f \in Responses[i].Cond : Holds(f, req)

\* the i-th listed response is the one the step's RoundTrip went for: the
\* first in list order all of whose filters hold for the request
IsSelected(i) ==
    /\ i \in 1..Len(Responses)
    /\ AllHold(i, mReq')
    /\ \A j \in 1..(i - 1) : ~AllHold(j, mReq')

ListedIds(rs) == {rs[i].id : i \in 1..Len(rs)}

\* C23: a response that is not sticky is taken off the list by the
\* RoundTrip that returns it, so it is returned by at most one RoundTrip;
\* an identical request following at once gets the next listed response
\* that matches, never the same one.
C23_NonStickyReturnedOnce ==
    [][(mOp' = "RoundTrip" /\ mResp' # NoResp)
        => \E i \in 1..Len(Responses) :
            /\ Responses[i].id = mResp'.id
            /\ IsSelected(i)
            /\ ~Responses[i].sticky
                 => (/\ mResp'.id \notin given
                     /\ mResp'.id \notin ListedIds(Responses')
                     /\ Len(Responses') = Len(Responses) - 1)
            /\ (mOp = "RoundTrip" /\ mReq' = mReq /\ mResp # NoResp
                 /\ mResp.id \notin ListedIds(Responses))
                 => (/\ mResp'.id # mResp.id
                     /\ mResp.id \in given
                     /\ mResp.id \notin ListedIds(Responses'))]_mockVars

\* the same request was served twice in a row, by response 1 and then by
\* response 2; both are gone and response 3 is still expected
C23_Witness ==
    /\ mOp = "RoundTrip" /\ mErr = Nil /\ mResp.id = 2
    /\ given = {1, 2}
    /\ Len(Responses) = 1 /\ Responses[1].id = 3 /\ ~Responses[1].sticky

\* C24: when the response RoundTrip selects is sticky, the list is left as
\* it is, and the same request made again at once gets the same response.
C24_StickyIsNotConsumed ==
    [][(mOp' = "RoundTrip")
        => /\ \A i \in 1..Len(Responses) :
                (IsSelected(i) /\ Responses[i].sticky)
                    => (/\ Responses' = Responses
                        /\ mErr' = Nil => mResp' = HTTPResponse(Responses[i]))
           /\ (/\ mOp = "RoundTrip" /\ mReq' = mReq /\ mResp # NoResp
               /\ mResp.id \in ListedIds(Responses) /\ mErr' = Nil)
                => (mResp' = mResp /\ Responses' = Responses)]_mockVars

\* the sticky 503 of the test was returned a second time, with a response
\* that is not sticky listed before it
C24_Witness ==
    /\ mOp = "RoundTrip" /\ mErr = Nil
    /\ mResp.id = 3 /\ mResp.StatusCode = 503 /\ 3 \in given
    /\ Len(Responses) = 2
    /\ Responses[2].id = 3 /\ Responses[2].sticky
    /\ ~Responses[1].sticky /\ Responses[1].Cond # {}

\* C25: RoundTrip goes for the first response, in the order of the Expect
\* calls, that has no filter or all of whose On/OnIdentifier/OnFunc filters
\* hold for the request, and returns it; the responses before and after it
\* stay on the list in their order.
C25_FirstMatchInExpectOrder ==
    [][(mOp' = "RoundTrip")
        => /\ \A j \in 1..(Len(Responses) - 1) :
                Responses[j].id < Responses[j + 1].id
           /\ \A i \in 1..Len(Responses) :
                IsSelected(i)
                    => (/\ mErr' \in PayloadResults
                        /\ (mErr' = Nil)
                             => (/\ mResp'.id = Responses[i].id
                                 /\ mResp'.StatusCode = Responses[i].Status
                                 /\ mResp'.Header = Responses[i].headers)
                        /\ SubSeq(Responses', 1, i - 1)
                             = SubSeq(Responses, 1, i - 1)
                        /\ \/ Responses' = Responses
                           \/ SubSeq(Responses', i, Len(Responses'))
                                = SubSeq(Responses, i + 1, Len(Responses)))]_mockVars

\* response 2 of three was returned: response 1 carries two filters of
\* which the request meets only one, responses 1 and 3 stay in their order
C25_Witness ==
    /\ mOp = "RoundTrip" /\ mErr = Nil /\ mResp.id = 2
    /\ mReq.path = <<"foo", "f1234">> /\ mReq.stack = {"GetFoo2"}
    /\ Len(Responses) = 2
    /\ Responses[1].id = 1 /\ Responses[2].id = 3
    /\ Cardinality(Responses[1].Cond) = 2

\* C26: when the list is empty, or no listed response has all its filters
\* holding for the request, RoundTrip returns no response and an
\* "unexpected call" error, and leaves the list as it is.
C26_UnexpectedCallKeepsList ==
    [][(/\ mOp' = "RoundTrip"
        /\ \A i \in 1..Len(Responses) : ~AllHold(i, mReq'))
        => (/\ mResp' = NoResp
            /\ mErr' = IF Len(Responses) = 0
                       THEN "unexpected call: no more expected responses"
                       ELSE "unexpected call: remaining responses have unmet conditions"
            /\ Responses' = Responses)]_mockVars

\* the first call of the test: the identifier of the request is not the
\* expected one, the response stays expected
C26_Witness ==
    /\ mOp = "RoundTrip" /\ mResp = NoResp
    /\ mErr = "unexpected call: remaining responses have unmet conditions"
    /\ mReq.path = <<"foo", "f1">> /\ mReq.stack = {"GetFoo"}
    /\ Len(Responses) = 1 /\ Cardinality(Responses[1].Cond) = 2
    /\ given = {}

\* C27: AssertEmpty reports an error exactly when a response that is not
\* sticky is still on the list, whatever sticky responses are listed, and
\* leaves the list as it is.
C27_AssertEmptyIgnoresSticky ==
    [][(mOp' = "AssertEmpty")
        => (/\ (mErr' # Nil)
                 <=> (\E i \in 1..Len(Responses) : ~Responses[i].sticky)
            /\ Responses' = Responses)]_mockVars

\* the end of the test: only the sticky 503 is left, AssertEmpty is silent
C27_Witness ==
    /\ mOp = "AssertEmpty" /\ mErr = Nil
    /\ Len(Responses) = 1 /\ Responses[1].sticky /\ Responses[1].id = 3
    /\ given = {1, 2, 3}

\* the number of levels open on the provider: 0 when Idle, nested + 1 with
\* a transaction
OpenLevels == IF tx = NilTx THEN 0 ELSE nested + 1

IsRealClose(c) == c.op \in {"Commit", "Rollback"}

\* C28: with a transaction open at nested = n, every successful Commit()
\* or Rollback() closes exactly one level, so a run of them in any mix
\* reaches Idle with the (n+1)-th call and not before; Tx.Commit or
\* Tx.Rollback is called by that last call only, and calls that fail,
\* statements included, close no level.
C28_EachCloseLowersOneLevel ==
    [][/\ (IsCommitOrRollback(lastOp') /\ tx # NilTx /\ lastRet' = Nil)
            => (/\ OpenLevels' = OpenLevels - 1
                /\ (tx' = NilTx) <=> (nested = 0)
                /\ (\E i \in DOMAIN lastCalls' : IsRealClose(lastCalls'[i]))
                     <=> (nested = 0)
                /\ (nested > 0) => (tx' = tx /\ current' = tx))
       /\ (lastOp' # "Tx" /\ ~(IsCommitOrRollback(lastOp') /\ lastRet' = Nil))
            => OpenLevels' = OpenLevels]_vars

\* the transaction that had reached nested = 2 was closed by a Rollback()
\* that called Tx.Rollback, rows written in it are gone
C28_Witness ==
    /\ lastOp = "Rollback" /\ lastRet = Nil
    /\ lastCalls = <<Call(1, "Rollback", "", Nil)>>
    /\ tx = NilTx /\ nested = 0 /\ peak = 2 /\ closedTxs = {1}
    /\ table = <<>>

\* C29: Tx() on a provider whose outermost transaction was committed or
\* rolled back calls Begin on the base DB again; on success the provider
\* holds a transaction that is none of the closed ones, at nested = 0, with
\* no savepoint and no level of the earlier transaction left.
C29_ProviderIsReusable ==
    [][(outerClosed /\ lastOp' = "Tx")
        => (/\ tx = NilTx /\ current = DBHandle /\ nested = 0
            /\ lastCalls' = <<Call(DBHandle, "Begin", "", lastRet')>>
            /\ (lastRet' = Nil)
                 => (/\ tx' # NilTx /\ tx' \notin closedTxs
                     /\ current' = tx'
                     /\ nested' = 0
                     /\ savepoints' = <<>>
                     /\ entered' = <<>>
                     /\ txData' = table)
            /\ (lastRet' # Nil) => UNCHANGED zp)]_vars

\* the second transaction of the provider was opened after the first, which
\* had been nested, was committed with a row
C29_Witness ==
    /\ lastOp = "Tx" /\ lastRet = Nil
    /\ lastCalls = <<Call(DBHandle, "Begin", "", Nil)>>
    /\ tx = 2 /\ current = 2 /\ nested = 0 /\ closedTxs = {1}
    /\ savepoints = <<>> /\ table # <<>> /\ txData = table

\* C30: every read and write of the Responses list, of potentialCallers and
\* of a response's sticky flag, headers and Cond made by Expect, Sticky,
\* Headers, On, OnIdentifier, OnFunc, RoundTrip and AssertEmpty is made by
\* the goroutine holding the mutex of the mock, so no two goroutines are in
\* a data race on them.
C30_AllAccessUnderMutex ==
    /\ \A t \in Threads : Accesses(t) # {} => Mutex = t
    /\ \A t, u \in Threads : ~DataRace(t, u)

\* goroutine 1 is inside RoundTrip with the mutex, evaluating an OnFunc
\* filter that reads potentialCallers, while goroutine 2 writes
\* potentialCallers in OnFunc without the mutex
C30_Witness ==
    /\ DataRace(1, 2)
    /\ at[1] = "body" /\ doing[1].op = "RoundTrip" /\ Mutex = 1
    /\ at[2] = "potentialCaller" /\ doing[2].op = "OnFunc"
    /\ funcCond # {}
====
